---- MODULE Spec2Model ----
(***************************************************************************)
(* Model of core/runjob.go: RunJob.Run and the functions it calls.         *)
(*                                                                         *)
(* A run is the sequential pipeline of RunJob.Run: pull, build (or look    *)
(* up) the container, start it, watch it, delete it.  The container        *)
(* engine behind docker.Client is the environment: each client call may    *)
(* fail, and a started container stops on its own with some exit code.    *)
(*                                                                         *)
(* Go strings that the code splits (Volumes, Env, EnvFiles, file lines)    *)
(* are sequences of one-character strings; strings the code only compares  *)
(* with "" (Image, Container, Network) are TLA+ strings.                   *)
(***************************************************************************)
EXTENDS Integers, Sequences, FiniteSets, TLC

VARIABLES
    job,         \* job[r]: the RunJob fields of run r
    pc,          \* pc[r]: position of run r inside Run
    container,   \* container[r]: Run's local `container` (an id, or Nil)
    err,         \* err[r]: the error Run returned (meaningful when pc[r] = "done")
    c,           \* c[r]: buildContainer's local `c`
    nets,        \* nets[r]: networks of buildContainer's loop still to connect
    elapsed,     \* elapsed[r]: watchContainer's local `r`
    calls,       \* calls[r]: the docker.Client calls run r has issued, in order
    createOpts,  \* createOpts[r]: Env and Mounts of the CreateContainer call
    containers,  \* the engine: container id -> state
    volIn,       \* argument of parseVolumeSpec (specification SpecVol)
    volOut,      \* result of parseVolumeSpec (specification SpecVol)
    envIn,       \* argument of parseEnvSpecs (specification SpecEnv)
    envOut,      \* result of parseEnvSpecs (specification SpecEnv)
    imgIn,       \* the parts of the image string given to buildPullOptions
                 \* (specification SpecImg)
    imgOut       \* result of buildPullOptions (specification SpecImg)

vars == <<job, pc, container, err, c, nets, elapsed, calls, createOpts,
          containers, volIn, volOut, envIn, envOut, imgIn, imgOut>>

runVars == <<job, pc, container, err, c, nets, elapsed, calls, createOpts,
             containers>>

-----------------------------------------------------------------------------
(* Bounds and constants *)

\* time unit: 50 ms
watchDuration == 2

\* the ceiling, shortened from 24 hours so that the poll loop can reach it
maxProcessDuration == 7

\* most networks FilteredListNetworks returns for one name
MaxNetworks == 2

\* longest argument given to parseVolumeSpec in SpecVol
MaxSpecLen == 4

\* longest list given to parseEnvSpecs in SpecEnv
MaxEnvEntries == 3

Runs == {"r1", "r2"}

Nil == "<nil>"

\* ids the engine gives to created containers, and one container that exists
\* before any run
NewIDs == {"n1", "n2"}
ExternalID == "ext"
IDs == NewIDs \cup {ExternalID}

ExitCodes == {-1, 0, 1, 7}

-----------------------------------------------------------------------------
(* Errors *)

Error(kind, code) == [kind |-> kind, code |-> code]

nil == Error("nil", 0)

ErrMaxTimeRunning == Error("ErrMaxTimeRunning", 0)

ErrUnexpected == Error("ErrUnexpected", 0)

\* fmt.Errorf("error non-zero exit code: %d", s.ExitCode)
ErrNonZeroExit(code) == Error("non-zero exit code", code)

-----------------------------------------------------------------------------
(* strings.Split on a one-character separator *)

RECURSIVE IndexFrom(_, _, _)
IndexFrom(s, sep, i) ==
    IF i > Len(s) THEN 0
    ELSE IF s[i] = sep THEN i
    ELSE IndexFrom(s, sep, i + 1)

RECURSIVE Split(_, _)
Split(s, sep) ==
    LET i == IndexFrom(s, sep, 1) IN
    IF i = 0 THEN <<s>>
    ELSE <<SubSeq(s, 1, i - 1)>> \o Split(SubSeq(s, i + 1, Len(s)), sep)

-----------------------------------------------------------------------------
(* parseVolumeSpec *)

Volume(from, to) == [From |-> from, To |-> to]

\* the loop over volSpecList: `volumes` is the list built so far
RECURSIVE parseVolumeEntries(_, _)
parseVolumeEntries(volSpecList, volumes) ==
    IF volSpecList = <<>> THEN [volumes |-> volumes, err |-> nil]
    ELSE LET spec == Split(Head(volSpecList), ":") IN
         IF Len(spec) = 0
         THEN parseVolumeEntries(Tail(volSpecList), volumes)
         ELSE IF Len(spec) # 2
         THEN [volumes |-> <<>>, err |-> Error("parsing volume spec", 0)]
         ELSE parseVolumeEntries(Tail(volSpecList),
                                 Append(volumes, Volume(spec[1], spec[2])))

parseVolumeSpec(volumeSpec) ==
    LET volSpecList == Split(volumeSpec, ",") IN
    IF Len(volSpecList) = 0
    THEN [volumes |-> <<>>, err |-> Error("parsing volumes", 0)]
    ELSE parseVolumeEntries(volSpecList, <<>>)

-----------------------------------------------------------------------------
(* parseEnvSpecs, readLines, parseEnvsFromFiles *)

\* the loop over envSpecs: `envs` is the list built so far
RECURSIVE parseEnvEntries(_, _)
parseEnvEntries(envSpecs, envs) ==
    IF envSpecs = <<>> THEN [envs |-> envs, err |-> nil]
    ELSE LET env == Head(envSpecs)
             spec == Split(env, "=") IN
         IF Len(spec) > 0
         THEN parseEnvEntries(Tail(envSpecs), envs)
         ELSE IF Len(spec) > 2
         THEN [envs |-> <<>>, err |-> Error("parsing env", 0)]
         ELSE parseEnvEntries(Tail(envSpecs), Append(envs, env))

parseEnvSpecs(envSpecs) == parseEnvEntries(envSpecs, <<>>)

\* the files on disk: one readable file "f" with two lines; any other path
\* cannot be opened
FileF == <<"f">>
FileFLines == << <<"K", "=", "v">>, <<"L", "=", "w">> >>

readLines(path) ==
    IF path = FileF THEN [lines |-> FileFLines, err |-> nil]
    ELSE [lines |-> <<>>, err |-> Error("open", 0)]

\* the loop over the files: `envs` is the list built so far
RECURSIVE parseEnvFiles(_, _)
parseEnvFiles(files, envs) ==
    IF files = <<>> THEN [envs |-> envs, err |-> nil]
    ELSE LET rl == readLines(Head(files)) IN
         IF rl.err # nil THEN [envs |-> <<>>, err |-> rl.err]
         ELSE LET es == parseEnvSpecs(rl.lines) IN
              IF es.err # nil THEN [envs |-> <<>>, err |-> es.err]
              ELSE parseEnvFiles(Tail(files), envs \o es.envs)

parseEnvsFromFiles(envFiles) == parseEnvFiles(Split(envFiles, ","), <<>>)

-----------------------------------------------------------------------------
(* buildContainer up to the CreateContainer call: the Env and Mounts it    *)
(* passes, or the parse error it returns before calling the engine         *)

Mount(v) == [Source |-> v.From, Destination |-> v.To, RW |-> TRUE]

buildEnvInline(j) ==
    IF j.Env # <<>> THEN parseEnvSpecs(Split(j.Env, ","))
    ELSE [envs |-> <<>>, err |-> nil]

buildEnvFiles(j) ==
    IF j.EnvFiles # <<>> THEN parseEnvsFromFiles(j.EnvFiles)
    ELSE [envs |-> <<>>, err |-> nil]

\* the mounts built with parseVolumeSpec's error dropped
buildMountsUnchecked(j) ==
    IF j.Volumes # <<>>
    THEN LET pv == parseVolumeSpec(j.Volumes) IN
         [mounts |-> [i \in 1..Len(pv.volumes) |-> Mount(pv.volumes[i])],
          err |-> nil]
    ELSE [mounts |-> <<>>, err |-> nil]

buildMounts(j) ==
    IF j.Volumes # <<>>
    THEN LET pv == parseVolumeSpec(j.Volumes) IN
         [mounts |-> [i \in 1..Len(pv.volumes) |-> Mount(pv.volumes[i])],
          err |-> pv.err]
    ELSE [mounts |-> <<>>, err |-> nil]

NoOpts == [Env |-> <<>>, Mounts |-> <<>>]

buildCreateOptions(j) ==
    LET inl == buildEnvInline(j)
        fil == buildEnvFiles(j)
        mnt == buildMounts(j) IN
    IF inl.err # nil
    THEN [opts |-> NoOpts, err |-> Error("parsing env files", 0)]
    ELSE IF fil.err # nil
    THEN [opts |-> NoOpts, err |-> Error("parsing env files", 0)]
    ELSE IF mnt.err # nil
    THEN [opts |-> NoOpts, err |-> Error("parsing volumes", 0)]
    ELSE [opts |-> [Env |-> inl.envs \o fil.envs, Mounts |-> mnt.mounts],
          err |-> nil]

-----------------------------------------------------------------------------
(* State *)

VolumeSpecs == { <<>>, <<"a", ":", "b">>, <<"a">>, <<"a", ":">> }
EnvSpecs == { <<>>, <<"K", "=", "v">>, <<"K">> }
EnvFilesSpecs == { <<>>, <<"f">>, <<"g">> }

JobSpecs == [Image : {"", "img"}, Container : {"", ExternalID},
             Delete : BOOLEAN, Network : {"", "net"},
             Volumes : VolumeSpecs, Env : EnvSpecs, EnvFiles : EnvFilesSpecs]

\* the fields of a run that is never started
NoJob == [Image |-> "", Container |-> "", Delete |-> FALSE, Network |-> "",
          Volumes |-> <<>>, Env |-> <<>>, EnvFiles |-> <<>>]

Absent == [exists |-> FALSE, running |-> FALSE, exitCode |-> 0]
Stopped(code) == [exists |-> TRUE, running |-> FALSE, exitCode |-> code]
Running == [exists |-> TRUE, running |-> TRUE, exitCode |-> 0]

\* one docker.Client call: the operation, the id or reference it was given,
\* what came back ("resolved"/"unresolved" for getContainer's inspect,
\* "running"/"exited"/"error" for watchContainer's, "ok"/"error" for the
\* others), and the exit code an inspect reported, the number of networks a
\* listing returned, or which of them a connect was for; force is the Force
\* field of RemoveContainerOptions
Call(op, id, res, code) ==
    [op |-> op, id |-> id, res |-> res, code |-> code, force |-> FALSE]

Log(r, call) == calls' = [calls EXCEPT ![r] = Append(@, call)]

InitRuns(active) ==
    /\ job \in {j \in [Runs -> JobSpecs \cup {NoJob}] :
                  \A r \in Runs : r \notin active => j[r] = NoJob}
    /\ pc = [r \in Runs |-> IF r \in active THEN "begin" ELSE "idle"]
    /\ container = [r \in Runs |-> Nil]
    /\ err = [r \in Runs |-> nil]
    /\ c = [r \in Runs |-> Nil]
    /\ nets = [r \in Runs |-> 0]
    /\ elapsed = [r \in Runs |-> 0]
    /\ calls = [r \in Runs |-> <<>>]
    /\ createOpts = [r \in Runs |-> NoOpts]
    /\ containers = [id \in IDs |-> IF id = ExternalID THEN Stopped(0) ELSE Absent]

\* volOut before parseVolumeSpec has returned
NotCalled == [volumes |-> <<>>, err |-> Error("not called", 0)]

\* envOut before parseEnvSpecs has returned
EnvNotCalled == [envs |-> <<>>, err |-> Error("not called", 0)]

\* the parts an image string is written from: the segment before the first
\* '/' (none when empty), the rest of the path, and the tag (none when empty)
ImageParts(first, path, tag) == [first |-> first, path |-> path, tag |-> tag]

NoImage == ImageParts(<<>>, <<>>, <<>>)

\* imgOut before buildPullOptions has returned
ImgNotCalled == [Repository |-> <<>>, Tag |-> <<>>, Registry |-> <<>>]

\* the variables of the functions checked on their own, none of them called
NoVolCall == volIn = <<>> /\ volOut = NotCalled
NoEnvCall == envIn = <<>> /\ envOut = EnvNotCalled
NoImgCall == imgIn = NoImage /\ imgOut = ImgNotCalled

Init ==
    /\ InitRuns({"r1"})
    /\ NoVolCall
    /\ NoEnvCall
    /\ NoImgCall

\* Run returns e
Return(r, e) ==
    /\ pc' = [pc EXCEPT ![r] = "done"]
    /\ err' = [err EXCEPT ![r] = e]

Goto(r, label) ==
    /\ pc' = [pc EXCEPT ![r] = label]
    /\ UNCHANGED err

-----------------------------------------------------------------------------
(* Run: the image path *)

\* the branch taken on the image alone
ImagePathImageOnly(j) == j.Image # ""

\* Run's branch: pull and build a container, or look an existing one up
ImagePath(j) == j.Image # "" /\ j.Container = ""

\* the pull error dropped and buildContainer called all the same
afterPullErrorIgnored == "build"

\* pullImage called again after an error
afterPullErrorRetry == "begin"

\* where Run goes when pullImage returns an error
afterPullError == "done"

PullImage(r) ==
    /\ pc[r] = "begin"
    /\ ImagePath(job[r])
    /\ \/ /\ Log(r, Call("pull", job[r].Image, "ok", 0))
          /\ Goto(r, "build")
       \/ /\ Log(r, Call("pull", job[r].Image, "error", 0))
          /\ pc' = [pc EXCEPT ![r] = afterPullError]
          /\ err' = [err EXCEPT ![r] = Error("pulling image", 0)]
    /\ UNCHANGED <<job, container, c, nets, elapsed, createOpts, containers,
                   volIn, volOut, envIn, envOut, imgIn, imgOut>>

\* a connect error returned with no container
connectErrorNoContainer(cid) == Nil

\* what buildContainer returns as its container when ConnectNetwork fails
connectErrorContainer(cid) == cid

\* buildContainer from its first line to the CreateContainer call and the
\* test of j.Network
CreateContainer(r) ==
    /\ pc[r] = "build"
    /\ LET b == buildCreateOptions(job[r]) IN
       IF b.err # nil
       THEN /\ Return(r, b.err)
            /\ UNCHANGED <<container, c, calls, createOpts, containers>>
       ELSE \/ \E id \in NewIDs :
                 /\ ~containers[id].exists
                 /\ \A r2 \in Runs : c[r2] # id
                 /\ containers' = [containers EXCEPT ![id] = Stopped(0)]
                 /\ createOpts' = [createOpts EXCEPT ![r] = b.opts]
                 /\ c' = [c EXCEPT ![r] = id]
                 /\ Log(r, Call("create", job[r].Image, "ok", 0))
                 /\ IF job[r].Network # ""
                    THEN /\ Goto(r, "listnet")
                         /\ UNCHANGED container
                    ELSE /\ Goto(r, "start")
                         /\ container' = [container EXCEPT ![r] = id]
            \/ /\ Log(r, Call("create", job[r].Image, "error", 0))
               /\ createOpts' = [createOpts EXCEPT ![r] = b.opts]
               /\ Return(r, Error("creating exec", 0))
               /\ UNCHANGED <<container, c, containers>>
    /\ UNCHANGED <<job, nets, elapsed, volIn, volOut, envIn, envOut, imgIn, imgOut>>

\* buildContainer: FilteredListNetworks; its error is dropped
ListNetworks(r) ==
    /\ pc[r] = "listnet"
    /\ \/ \E n \in 1..MaxNetworks :
            /\ Log(r, Call("listnetworks", job[r].Network, "ok", n))
            /\ nets' = [nets EXCEPT ![r] = n]
            /\ Goto(r, "connect")
            /\ UNCHANGED container
       \/ /\ Log(r, Call("listnetworks", job[r].Network, "ok", 0))
          /\ container' = [container EXCEPT ![r] = c[r]]
          /\ Goto(r, "start")
          /\ UNCHANGED nets
       \/ /\ Log(r, Call("listnetworks", job[r].Network, "error", 0))
          /\ container' = [container EXCEPT ![r] = c[r]]
          /\ Goto(r, "start")
          /\ UNCHANGED nets
    /\ UNCHANGED <<job, c, elapsed, createOpts, containers, volIn, volOut, envIn, envOut, imgIn, imgOut>>

\* buildContainer: one iteration of the loop over the networks
ConnectNetwork(r) ==
    /\ pc[r] = "connect"
    /\ \/ /\ Log(r, Call("connect", c[r], "ok", nets[r]))
          /\ nets' = [nets EXCEPT ![r] = @ - 1]
          /\ IF nets[r] = 1
             THEN /\ container' = [container EXCEPT ![r] = c[r]]
                  /\ Goto(r, "start")
             ELSE /\ Goto(r, "connect")
                  /\ UNCHANGED container
       \/ /\ Log(r, Call("connect", c[r], "error", nets[r]))
          /\ container' = [container EXCEPT ![r] = connectErrorContainer(c[r])]
          /\ Return(r, Error("connecting container to network", 0))
          /\ UNCHANGED nets
    /\ UNCHANGED <<job, c, elapsed, createOpts, containers, volIn, volOut, envIn, envOut, imgIn, imgOut>>

-----------------------------------------------------------------------------
(* Run: the existing-container path *)

\* the containers the engine may answer an InspectContainer(ref) with: the
\* one with that id when ref is an id; Run passes j.Container on unchecked,
\* and what the engine makes of a reference that is no id is up to the engine
Resolve(ref) ==
    IF ref \in IDs THEN {id \in {ref} : containers[id].exists}
    ELSE {id \in IDs : containers[id].exists}

GetContainer(r) ==
    /\ pc[r] = "begin"
    /\ ~ImagePath(job[r])
    /\ \/ \E id \in Resolve(job[r].Container) :
            /\ Log(r, Call("inspect", job[r].Container, "resolved", 0))
            /\ container' = [container EXCEPT ![r] = id]
            /\ Goto(r, "start")
       \/ /\ Log(r, Call("inspect", job[r].Container, "unresolved", 0))
          /\ Return(r, Error("inspect", 0))
          /\ UNCHANGED container
    /\ UNCHANGED <<job, c, nets, elapsed, createOpts, containers, volIn, volOut, envIn, envOut, imgIn, imgOut>>

-----------------------------------------------------------------------------
(* startContainer *)

StartContainer(r) ==
    /\ pc[r] = "start"
    /\ \/ /\ containers[container[r]].exists
          /\ Log(r, Call("start", container[r], "ok", 0))
          /\ containers' = [containers EXCEPT ![container[r]] = Running]
          /\ Goto(r, "watch")
       \/ /\ Log(r, Call("start", container[r], "error", 0))
          /\ Return(r, Error("start", 0))
          /\ UNCHANGED containers
    /\ UNCHANGED <<job, container, c, nets, elapsed, createOpts, volIn, volOut, envIn, envOut, imgIn, imgOut>>

\* a running container stops on its own, or is stopped from outside the run
ContainerExit(id) ==
    /\ containers[id].running
    /\ \E code \in ExitCodes :
         containers' = [containers EXCEPT ![id] = Stopped(code)]
    /\ UNCHANGED <<job, pc, container, err, c, nets, elapsed, calls,
                   createOpts, volIn, volOut, envIn, envOut, imgIn, imgOut>>

-----------------------------------------------------------------------------
(* watchContainer *)

\* r += watchDuration
addWatchDuration(r) == r + watchDuration

\* the ceiling compared with the time before the sleep
overCeilingBeforeSleep(r) == r - watchDuration > maxProcessDuration

\* the comparison with the ceiling turned round
underCeiling(r) == r < maxProcessDuration

\* r > maxProcessDuration
overCeiling(r) == r > maxProcessDuration

\* the switch returning an error for positive codes only
classifyExitCodePositive(code) ==
    IF code > 0 THEN ErrNonZeroExit(code) ELSE nil

\* the switch without its case -1
classifyExitCodeNoUnexpected(code) ==
    IF code = 0 THEN nil ELSE ErrNonZeroExit(code)

\* the switch on s.ExitCode
classifyExitCode(code) ==
    CASE code = 0 -> nil
      [] code = -1 -> ErrUnexpected
      [] OTHER -> ErrNonZeroExit(code)

\* the loop going round again after an inspect error
afterInspectErrorRetry == "watch"

\* where the loop goes when InspectContainer returns an error
afterInspectError == "done"

\* deleteContainer called whatever watchContainer returned
afterWatchAlwaysDelete(e) == "delete"

\* where Run goes when watchContainer returns e
afterWatch(e) == IF e # nil THEN "done" ELSE "delete"

\* one iteration of the loop and, when the loop breaks, the switch after it
WatchContainer(r) ==
    /\ pc[r] = "watch"
    /\ elapsed' = [elapsed EXCEPT ![r] = addWatchDuration(@)]
    /\ IF overCeiling(elapsed'[r])
       THEN /\ Return(r, ErrMaxTimeRunning)
            /\ UNCHANGED calls
       ELSE \/ /\ Log(r, Call("inspect", container[r], "error", 0))
               /\ pc' = [pc EXCEPT ![r] = afterInspectError]
               /\ err' = [err EXCEPT ![r] = Error("inspect", 0)]
            \/ /\ containers[container[r]].exists
               /\ LET s == containers[container[r]] IN
                  IF s.running
                  THEN /\ Log(r, Call("inspect", container[r], "running", 0))
                       /\ Goto(r, "watch")
                  ELSE /\ Log(r, Call("inspect", container[r], "exited", s.exitCode))
                       /\ pc' = [pc EXCEPT ![r] = afterWatch(classifyExitCode(s.exitCode))]
                       /\ err' = [err EXCEPT ![r] = classifyExitCode(s.exitCode)]
    /\ UNCHANGED <<job, container, c, nets, createOpts, containers, volIn, volOut, envIn, envOut, imgIn, imgOut>>

-----------------------------------------------------------------------------
(* deleteContainer, and Run's test before it *)

\* Run calls deleteContainer
callsDelete(j) == j.Container = ""

\* deleteContainer calls RemoveContainer
removes(j) == j.Delete

\* RemoveContainerOptions{ID: containerID}: Force is not set, and the engine
\* refuses to remove a running container without it
removeForce == FALSE

\* the RemoveContainer call
RemoveCall(id, res) == [Call("remove", id, res, 0) EXCEPT !.force = removeForce]

DeleteContainer(r) ==
    /\ pc[r] = "delete"
    /\ IF callsDelete(job[r]) /\ removes(job[r])
       THEN \/ /\ containers[container[r]].exists
               /\ removeForce \/ ~containers[container[r]].running
               /\ Log(r, RemoveCall(container[r], "ok"))
               /\ containers' = [containers EXCEPT ![container[r]] = Absent]
               /\ Return(r, nil)
            \/ /\ Log(r, RemoveCall(container[r], "error"))
               /\ Return(r, Error("remove", 0))
               /\ UNCHANGED containers
       ELSE /\ Return(r, nil)
            /\ UNCHANGED <<calls, containers>>
    /\ UNCHANGED <<job, container, c, nets, elapsed, createOpts, volIn, volOut, envIn, envOut, imgIn, imgOut>>

-----------------------------------------------------------------------------
(* Specifications *)

RunStep(r) ==
    \/ PullImage(r)
    \/ CreateContainer(r)
    \/ ListNetworks(r)
    \/ ConnectNetwork(r)
    \/ GetContainer(r)
    \/ StartContainer(r)
    \/ WatchContainer(r)
    \/ DeleteContainer(r)

Next ==
    \/ \E r \in Runs : RunStep(r)
    \/ \E id \in IDs : ContainerExit(id)

\* one run against an engine that holds one container of somebody else
Spec == Init /\ [][Next]_vars

\* a run that has been called keeps taking its steps: Run is sequential code
\* whose sleeps and client calls return
SpecLive == Spec /\ \A r \in Runs : WF_vars(RunStep(r))

\* the jobs of concurrent runs: nothing to parse
ConcJobs == {j \in JobSpecs : j.Volumes = <<>> /\ j.Env = <<>> /\ j.EnvFiles = <<>>}

\* two runs called at once on the same client, one of them without a network
InitConc ==
    /\ InitRuns(Runs)
    /\ \A r \in Runs : job[r] \in ConcJobs
    /\ job["r2"].Network = ""
    /\ NoVolCall
    /\ NoEnvCall
    /\ NoImgCall

SpecConc == InitConc /\ [][Next]_vars

-----------------------------------------------------------------------------
(* parseVolumeSpec on its own: every argument up to MaxSpecLen characters  *)

SpecChars == {"a", "b", ":", ","}

RECURSIVE SeqsUpTo(_)
SeqsUpTo(n) ==
    IF n = 0 THEN {<<>>}
    ELSE LET shorter == SeqsUpTo(n - 1) IN
         shorter \cup {Append(s, ch) : s \in {t \in shorter : Len(t) = n - 1},
                                       ch \in SpecChars}

InitVol ==
    /\ InitRuns({})
    /\ volIn \in SeqsUpTo(MaxSpecLen)
    /\ volOut = NotCalled
    /\ NoEnvCall
    /\ NoImgCall

CallParseVolumeSpec ==
    /\ volOut = NotCalled
    /\ volOut' = parseVolumeSpec(volIn)
    /\ UNCHANGED <<volIn, runVars, envIn, envOut, imgIn, imgOut>>

NextVol == CallParseVolumeSpec

SpecVol == InitVol /\ [][NextVol]_vars

-----------------------------------------------------------------------------
(* parseEnvSpecs on its own: every list of up to MaxEnvEntries entries     *)

EnvEntries == { <<"K", "=", "v">>, <<"L", "=", "w">>, <<"K", "=", "v", "=", "w">>,
                <<"K">>, <<>> }

\* an entry contains '='
HasEquals(entry) == \E i \in DOMAIN entry : entry[i] = "="

RECURSIVE EnvListsUpTo(_)
EnvListsUpTo(n) ==
    IF n = 0 THEN {<<>>}
    ELSE LET shorter == EnvListsUpTo(n - 1) IN
         shorter \cup {Append(l, e) : l \in {t \in shorter : Len(t) = n - 1},
                                      e \in EnvEntries}

InitEnv ==
    /\ InitRuns({})
    /\ NoVolCall
    /\ envIn \in EnvListsUpTo(MaxEnvEntries)
    /\ envOut = EnvNotCalled
    /\ NoImgCall

CallParseEnvSpecs ==
    /\ envOut = EnvNotCalled
    /\ envOut' = parseEnvSpecs(envIn)
    /\ UNCHANGED <<envIn, runVars, volIn, volOut, imgIn, imgOut>>

NextEnv == CallParseEnvSpecs

SpecEnv == InitEnv /\ [][NextEnv]_vars

-----------------------------------------------------------------------------
(* buildPullOptions: its code is not in runjob.go; it is modelled from the  *)
(* design (Image-Reference Parser) and the TestBuildPullImageOptions tests  *)

Latest == <<"l", "a", "t", "e", "s", "t">>

RECURSIVE LastIndexFrom(_, _, _)
LastIndexFrom(s, ch, i) ==
    IF i = 0 THEN 0
    ELSE IF s[i] = ch THEN i
    ELSE LastIndexFrom(s, ch, i - 1)

\* a segment names a registry host
IsRegistry(seg) == \E i \in DOMAIN seg : seg[i] \in {".", ":"}

\* the first ':' of the string taken for the tag's
tagColonFirst(image) == IndexFrom(image, ":", 1)

\* position of the ':' that starts the tag: the first one after the last
\* '/', 0 when there is none
tagColon(image) ==
    IndexFrom(image, ":", LastIndexFrom(image, "/", Len(image)) + 1)

buildPullOptions(image) ==
    LET colon == tagColon(image)
        slash == IndexFrom(image, "/", 1)
        seg == SubSeq(image, 1, slash - 1) IN
    [Repository |-> IF colon = 0 THEN image ELSE SubSeq(image, 1, colon - 1),
     Tag |-> IF colon = 0 THEN Latest ELSE SubSeq(image, colon + 1, Len(image)),
     Registry |-> IF slash # 0 /\ IsRegistry(seg) THEN seg ELSE <<>>]

\* the image string written from its parts
Compose(parts) ==
    (IF parts.first # <<>> THEN parts.first \o <<"/">> ELSE <<>>)
    \o parts.path
    \o (IF parts.tag # <<>> THEN <<":">> \o parts.tag ELSE <<>>)

Firsts == { <<>>, <<"q">>, <<"q", "-", "i">>, <<"q", ".", "i">>, <<"q", ":", "5">>,
            <<"q", ".", "i", ":", "5">> }
Paths == { <<"r">>, <<"r", "/", "s">>, <<"r", "/", "s", "/", "u">>, <<"r", "_", "s">> }
Tags == { <<>>, <<"t">>, <<"v", ".", "1">> }

InitImg ==
    /\ InitRuns({})
    /\ NoVolCall
    /\ NoEnvCall
    /\ imgIn \in {ImageParts(f, p, t) : f \in Firsts, p \in Paths, t \in Tags}
    /\ imgOut = ImgNotCalled

CallBuildPullOptions ==
    /\ imgOut = ImgNotCalled
    /\ imgOut' = buildPullOptions(Compose(imgIn))
    /\ UNCHANGED <<imgIn, runVars, volIn, volOut, envIn, envOut>>

NextImg == CallBuildPullOptions

SpecImg == InitImg /\ [][NextImg]_vars

-----------------------------------------------------------------------------
(* What a run has done, read off its calls *)

CallsOf(r, op) == {i \in DOMAIN calls[r] : calls[r][i].op = op}

\* the inspects of watchContainer's loop
Polls(r) == {i \in CallsOf(r, "inspect") :
               calls[r][i].res \in {"running", "exited", "error"}}

\* this run's buildContainer created the container
Owned(r) == \E i \in CallsOf(r, "create") : calls[r][i].res = "ok"

\* the container came from getContainer's inspect
LookedUp(r) == \E i \in CallsOf(r, "inspect") : calls[r][i].res = "resolved"

\* watchContainer saw the container stopped with exit code `code`
SawExit(r, code) ==
    \E i \in Polls(r) : calls[r][i].res = "exited" /\ calls[r][i].code = code

StartFailed(r) == \E i \in CallsOf(r, "start") : calls[r][i].res = "error"

PollFailed(r) == \E i \in Polls(r) : calls[r][i].res = "error"

NoRemove(r) == CallsOf(r, "remove") = {}

-----------------------------------------------------------------------------
(* Claims *)

\* C1: whenever watchContainer has seen the container not running, the run's
\* outcome follows from the exit code alone: 0 gives nil (Run goes on to
\* deleteContainer), -1 gives ErrUnexpected, any other n gives the error
\* carrying n.
C1_ExitCodeClassifies ==
    \A r \in Runs : \A code \in ExitCodes :
        SawExit(r, code) =>
            CASE code = 0 ->
                   \/ pc[r] = "delete" /\ err[r] = nil
                   \/ pc[r] = "done" /\ err[r].kind \in {"nil", "remove"}
              [] code = -1 -> pc[r] = "done" /\ err[r] = ErrUnexpected
              [] OTHER -> pc[r] = "done" /\ err[r] = ErrNonZeroExit(code)

C1_Witness ==
    \E r \in Runs :
        /\ SawExit(r, 7) /\ err[r] = ErrNonZeroExit(7)
        /\ \E i \in Polls(r) : calls[r][i].res = "running"

\* every poll of run r so far reported the container running
OnlyRunningPolls(r) == \A i \in Polls(r) : calls[r][i].res = "running"

\* C2: supervision always terminates: a run inside watchContainer reaches the
\* end of Run, and when every inspect reported the container running it ends
\* with ErrMaxTimeRunning, returned only once the accumulated sleep exceeds
\* the ceiling.
C2_WatchTerminates ==
    \A r \in Runs :
        /\ (pc[r] = "watch") ~>
             (/\ pc[r] = "done"
              /\ OnlyRunningPolls(r) => err[r] = ErrMaxTimeRunning)
        /\ [](err[r] = ErrMaxTimeRunning =>
                /\ elapsed[r] > maxProcessDuration
                /\ elapsed[r] = watchDuration * (Cardinality(Polls(r)) + 1))

C2_Witness ==
    \E r \in Runs :
        /\ pc[r] = "done" /\ err[r] = ErrMaxTimeRunning
        /\ containers[container[r]].running
        /\ Cardinality(Polls(r)) >= 2

\* C3: when watchContainer has returned nil and Run has returned, a remove
\* call was issued exactly if this run created the container and Delete is
\* set, and in that case the engine no longer holds the container.
C3_RemoveIffOwnedAndDelete ==
    \A r \in Runs :
        (pc[r] = "done" /\ SawExit(r, 0)) =>
            /\ ~NoRemove(r) <=> (Owned(r) /\ job[r].Delete)
            /\ (Owned(r) /\ job[r].Delete) => ~containers[container[r]].exists

\* C4: a container that getContainer resolved is never the target of a
\* remove call.
C4_LookedUpNeverRemoved ==
    \A r \in Runs : LookedUp(r) => NoRemove(r)

\* C5: with neither Image nor Container set, Run issues no engine call and
\* returns a configuration error.
C5_NeitherSetNoEngineCall ==
    \A r \in Runs :
        (pc[r] # "idle" /\ job[r].Image = "" /\ job[r].Container = "") =>
            /\ calls[r] = <<>>
            /\ pc[r] = "done" => err[r].kind = "configuration"

\* C6: when start failed, or watchContainer ended in ErrMaxTimeRunning,
\* ErrUnexpected, a non-zero exit code or an inspect error, Run has returned
\* that error without a remove call, and a container this run created is
\* still in the engine.
C6_NoReapOnFailure ==
    \A r \in Runs :
        LET failure ==
              IF StartFailed(r) THEN Error("start", 0)
              ELSE IF PollFailed(r) THEN Error("inspect", 0)
              ELSE IF SawExit(r, -1) THEN ErrUnexpected
              ELSE IF \E n \in ExitCodes \ {0, -1} : SawExit(r, n)
              THEN ErrNonZeroExit(CHOOSE n \in ExitCodes \ {0, -1} : SawExit(r, n))
              ELSE IF elapsed[r] > maxProcessDuration THEN ErrMaxTimeRunning
              ELSE nil
        IN  failure # nil =>
              /\ pc[r] = "done"
              /\ err[r] = failure
              /\ NoRemove(r)
              /\ Owned(r) => containers[container[r]].exists

C6_Witness ==
    \E r \in Runs :
        /\ Owned(r) /\ job[r].Delete
        /\ pc[r] = "done" /\ err[r] = ErrNonZeroExit(7)
        /\ containers[container[r]].exists

\* C7: an inspect error inside watchContainer's loop is the last thing the
\* run does: it is the run's last call, no further sleep was taken, and Run
\* has returned that error.
C7_PollErrorEndsRun ==
    \A r \in Runs : \A i \in Polls(r) :
        calls[r][i].res = "error" =>
            /\ i = Len(calls[r])
            /\ elapsed[r] = watchDuration * Cardinality(Polls(r))
            /\ pc[r] = "done"
            /\ err[r] = Error("inspect", 0)
            /\ NoRemove(r)

C7_Witness ==
    \E r \in Runs :
        /\ PollFailed(r)
        /\ \E i \in Polls(r) : calls[r][i].res = "running"
        /\ Owned(r) /\ job[r].Delete

\* C8: when a ConnectNetwork call failed, Run has returned the connect error,
\* the created container is still in the engine, no remove call was issued,
\* and buildContainer returned the container together with the error.
C8_ConnectErrorKeepsContainer ==
    \A r \in Runs :
        (\E i \in CallsOf(r, "connect") : calls[r][i].res = "error") =>
            /\ pc[r] = "done"
            /\ err[r] = Error("connecting container to network", 0)
            /\ c[r] \in NewIDs
            /\ container[r] = c[r]
            /\ containers[c[r]].exists
            /\ NoRemove(r)
            /\ calls[r][Len(calls[r])].op = "connect"

C8_Witness ==
    \E r \in Runs :
        /\ \E i \in CallsOf(r, "connect") : calls[r][i].res = "error"
        /\ \E i \in CallsOf(r, "connect") : calls[r][i].res = "ok"
        /\ job[r].Delete

\* the calls whose error Run returns
Returned(call) ==
    /\ call.op # "listnetworks"
    /\ call.res \in {"error", "unresolved"}

\* C9 as stated: at most one pull, one create and one start, and no call
\* other than inspect is issued more than once.
C9_OnlyPollRepeats ==
    \A r \in Runs :
        /\ \A op \in {"pull", "create", "start"} : Cardinality(CallsOf(r, op)) <= 1
        /\ \A i, k \in DOMAIN calls[r] :
             (i # k /\ calls[r][i].op = calls[r][k].op) => calls[r][i].op = "inspect"

\* C9 amended: at most one pull, one create, one network listing, one start
\* and one remove; no call follows a call whose error Run returns; the calls
\* issued more than once are inspect (getContainer's one and the poll loop's)
\* and ConnectNetwork, at most once per network the listing returned.
C9_NoRetry ==
    \A r \in Runs :
        /\ \A op \in {"pull", "create", "listnetworks", "start", "remove"} :
             Cardinality(CallsOf(r, op)) <= 1
        /\ Cardinality(CallsOf(r, "inspect") \ Polls(r)) <= 1
        /\ \A i \in DOMAIN calls[r] : Returned(calls[r][i]) => i = Len(calls[r])
        /\ \A i \in CallsOf(r, "connect") :
             \E k \in CallsOf(r, "listnetworks") :
                 /\ k < i
                 /\ Cardinality(CallsOf(r, "connect")) <= calls[r][k].code

C9_Witness ==
    \E r \in Runs :
        /\ Cardinality(CallsOf(r, "connect")) = 2
        /\ Cardinality(Polls(r)) >= 2
        /\ ~NoRemove(r)

\* an entry with exactly one ':' and something on both sides of it
WellFormedEntry(entry) ==
    LET parts == Split(entry, ":") IN
    Len(parts) = 2 /\ parts[1] # <<>> /\ parts[2] # <<>>

\* C10: parseVolumeSpec succeeds exactly when every comma-separated entry is
\* host:container with both parts non-empty, and then returns the pairs in
\* input order; otherwise it returns an error and no volumes.
C10_ParseVolumesExact ==
    volOut # NotCalled =>
        LET entries == Split(volIn, ",")
            ok == \A i \in DOMAIN entries : WellFormedEntry(entries[i]) IN
        /\ volOut.err = nil <=> ok
        /\ ok => volOut.volumes =
                   [i \in DOMAIN entries |->
                      Volume(Split(entries[i], ":")[1], Split(entries[i], ":")[2])]
        /\ ~ok => volOut.volumes = <<>>

\* C11: parseEnvSpecs returns the entries that contain '=' unchanged and in
\* input order when every entry contains one, and returns an error when some
\* entry contains none.
C11_ParseEnvKeepsEntries ==
    envOut # EnvNotCalled =>
        IF \A i \in DOMAIN envIn : HasEquals(envIn[i])
        THEN envOut.err = nil /\ envOut.envs = envIn
        ELSE envOut.err # nil

\* the inline entries of a job, as written
InlineEntries(j) == IF j.Env # <<>> THEN Split(j.Env, ",") ELSE <<>>

\* the lines of the job's env files, in file order then line order
RECURSIVE LinesOf(_)
LinesOf(files) ==
    IF files = <<>> THEN <<>>
    ELSE readLines(Head(files)).lines \o LinesOf(Tail(files))

FileEntries(j) ==
    IF j.EnvFiles # <<>> THEN LinesOf(Split(j.EnvFiles, ",")) ELSE <<>>

\* C12: the Env of the CreateContainer call is the inline entries in their
\* order followed by the lines of the env files in file order then line
\* order, nothing dropped (for a job whose entries all contain '=').
C12_EnvInlineThenFiles ==
    \A r \in Runs :
        (/\ CallsOf(r, "create") # {}
         /\ \A i \in DOMAIN InlineEntries(job[r]) : HasEquals(InlineEntries(job[r])[i]))
        => createOpts[r].Env = InlineEntries(job[r]) \o FileEntries(job[r])

\* C13: every remove call for a container the run created carries the force
\* flag.
C13_RemoveIsForced ==
    \A r \in Runs :
        Owned(r) => \A i \in CallsOf(r, "remove") : calls[r][i].force

\* C14: every start, poll inspect and remove call of a run is for the
\* container its own provisioning returned, and never for a container that
\* another run created.
C14_RunsKeepToOwnContainer ==
    \A r \in Runs : \A i \in DOMAIN calls[r] :
        (calls[r][i].op \in {"start", "remove"} \/ i \in Polls(r)) =>
            /\ calls[r][i].id = container[r]
            /\ \A r2 \in Runs \ {r} : ~(Owned(r2) /\ c[r2] = calls[r][i].id)

\* the segment before the first '/' of the image written from `parts`
FirstSegment(parts) ==
    IF parts.first # <<>> THEN parts.first
    ELSE IF \E i \in DOMAIN parts.path : parts.path[i] = "/"
    THEN Split(parts.path, "/")[1]
    ELSE <<>>

\* C15: for an image written as [first/]path[:tag], buildPullOptions returns
\* the tag ("latest" when none was written), the image without the tag as
\* repository, and as registry the segment before the first '/' when it
\* contains '.' or ':' and nothing otherwise; repository and tag are not
\* empty.
C15_PullOptionsRecoverParts ==
    imgOut # ImgNotCalled =>
        /\ imgOut.Tag = (IF imgIn.tag = <<>> THEN Latest ELSE imgIn.tag)
        /\ imgOut.Repository = Compose([imgIn EXCEPT !.tag = <<>>])
        /\ imgOut.Registry = (IF IsRegistry(FirstSegment(imgIn))
                              THEN FirstSegment(imgIn) ELSE <<>>)
        /\ imgOut.Repository # <<>>
        /\ imgOut.Tag # <<>>

C15_Witness ==
    /\ imgIn = ImageParts(<<"q", ".", "i", ":", "5">>, <<"r", "/", "s">>, <<"t">>)
    /\ imgOut.Registry = <<"q", ".", "i", ":", "5">>
    /\ imgOut.Tag = <<"t">>

\* C16: when Run has returned, it returned no error exactly if
\* watchContainer saw the container stopped with exit code 0 and no call
\* whose error Run returns has failed; a failed parse, pull, create, connect,
\* lookup, start, inspect or remove, the ceiling, and every exit code other
\* than 0 end in an error.
C16_NilOnlyAfterExitZero ==
    \A r \in Runs :
        pc[r] = "done" =>
            (err[r] = nil <=>
                /\ SawExit(r, 0)
                /\ \A i \in DOMAIN calls[r] : ~Returned(calls[r][i]))

C16_Witness ==
    \E r \in Runs :
        /\ pc[r] = "done" /\ SawExit(r, 0)
        /\ err[r] = Error("remove", 0)

\* place of a call in the pipeline
Stage(r, i) ==
    LET op == calls[r][i].op IN
    CASE op = "pull" -> 1
      [] op = "create" -> 2
      [] op = "listnetworks" -> 3
      [] op = "connect" -> 4
      [] op = "start" -> 5
      [] op = "inspect" -> IF i \in Polls(r) THEN 6 ELSE 2
      [] op = "remove" -> 7

\* C17: the calls of a run come in pipeline order (pull, create, network
\* listing, connects, start, poll inspects, remove); a start call comes only
\* after provisioning returned a container with no error; a poll inspect only
\* after a successful start; a remove only right after the poll that saw the
\* container not running.
C17_PipelineOrder ==
    \A r \in Runs :
        /\ \A i, k \in DOMAIN calls[r] : i < k => Stage(r, i) <= Stage(r, k)
        /\ \A i \in CallsOf(r, "start") :
             /\ \A k \in 1..(i - 1) : ~Returned(calls[r][k])
             /\ \E k \in 1..(i - 1) :
                  /\ Stage(r, k) = 2
                  /\ calls[r][k].res \in {"ok", "resolved"}
             /\ container[r] # Nil
             /\ calls[r][i].id = container[r]
        /\ \A i \in Polls(r) :
             \E k \in CallsOf(r, "start") : k < i /\ calls[r][k].res = "ok"
        /\ \A i \in CallsOf(r, "remove") :
             /\ i - 1 \in Polls(r)
             /\ calls[r][i - 1].res = "exited"

C17_Witness ==
    \E r \in Runs :
        /\ CallsOf(r, "pull") # {} /\ CallsOf(r, "connect") # {}
        /\ \E i \in Polls(r) : calls[r][i].res = "running"
        /\ \E i \in CallsOf(r, "remove") : calls[r][i].res = "ok"

\* C18: a run whose Container field is set issues no pull and no create call,
\* whatever Image holds; its first call is the one inspect of that reference,
\* and when that fails it is the only call and Run returns its error.
C18_ContainerFieldWins ==
    \A r \in Runs :
        (job[r].Container # "" /\ pc[r] \notin {"idle", "begin"}) =>
            /\ CallsOf(r, "pull") = {}
            /\ CallsOf(r, "create") = {}
            /\ CallsOf(r, "inspect") \ Polls(r) = {1}
            /\ calls[r][1].id = job[r].Container
            /\ calls[r][1].res = "unresolved" =>
                 /\ Len(calls[r]) = 1
                 /\ pc[r] = "done"
                 /\ err[r] = Error("inspect", 0)

C18_Witness ==
    \E r \in Runs :
        /\ job[r].Image # "" /\ job[r].Container # ""
        /\ pc[r] = "done"
        /\ calls[r][1].res = "unresolved"

\* C19: every poll inspect comes after one more sleep and after the test of
\* the ceiling: a run issues at most floor(ceiling / interval) poll inspects,
\* and once the accumulated sleep exceeds the ceiling Run has returned
\* ErrMaxTimeRunning without another inspect, whatever the container's state
\* is by then.
C19_CeilingBeforeInspect ==
    \A r \in Runs :
        LET polls == Cardinality(Polls(r)) IN
        /\ polls <= maxProcessDuration \div watchDuration
        /\ IF elapsed[r] > maxProcessDuration
           THEN /\ pc[r] = "done"
                /\ err[r] = ErrMaxTimeRunning
                /\ elapsed[r] = watchDuration * (polls + 1)
                /\ elapsed[r] - watchDuration <= maxProcessDuration
                /\ polls = maxProcessDuration \div watchDuration
                /\ OnlyRunningPolls(r)
           ELSE /\ elapsed[r] = watchDuration * polls
                /\ err[r] # ErrMaxTimeRunning

C19_Witness ==
    \E r \in Runs :
        /\ err[r] = ErrMaxTimeRunning
        /\ containers[container[r]].exists
        /\ ~containers[container[r]].running
        /\ containers[container[r]].exitCode = 0

\* parsing the job's env files or volume spec fails
ParseFails(j) ==
    \/ j.EnvFiles # <<>> /\ parseEnvsFromFiles(j.EnvFiles).err # nil
    \/ j.Volumes # <<>> /\ parseVolumeSpec(j.Volumes).err # nil

\* C20: on the image path, a failed pull is the run's only call and Run
\* returns its error; a job whose env files or volume spec do not parse gets
\* past buildContainer only by returning the parse error, after a successful
\* pull and with no further call; in both cases the engine holds no container
\* created by this run.
C20_NoContainerOnPullOrParseError ==
    \A r \in Runs :
        ImagePath(job[r]) =>
            /\ (\E i \in CallsOf(r, "pull") : calls[r][i].res = "error") =>
                 /\ pc[r] = "done"
                 /\ err[r] = Error("pulling image", 0)
                 /\ Len(calls[r]) = 1
                 /\ \A id \in NewIDs : ~containers[id].exists
            /\ (ParseFails(job[r]) /\ pc[r] \notin {"begin", "build"}) =>
                 /\ pc[r] = "done"
                 /\ \/ err[r] = Error("pulling image", 0)
                    \/ /\ err[r].kind \in {"parsing env files", "parsing volumes"}
                       /\ calls[r] = <<Call("pull", job[r].Image, "ok", 0)>>
                 /\ Len(calls[r]) = 1
                 /\ \A id \in NewIDs : ~containers[id].exists

C20_Witness ==
    \E r \in Runs :
        /\ pc[r] = "done"
        /\ err[r] = Error("parsing volumes", 0)
        /\ Len(calls[r]) = 1
        /\ job[r].Network # ""

====
